---- MODULE Spec2Model ----
(***************************************************************************)
(* Record lifecycle, audit trail and query/filter model of bug_tracker.py. *)
(*                                                                         *)
(* Python strings are sequences of one-character strings, so that lower(), *)
(* strip() and the `in` substring test are computed and not assumed.       *)
(* The MongoDB collections are a function from ObjectId to document (bugs) *)
(* and a sequence of documents (audit_logs).  Each session (a Streamlit    *)
(* script run) executes one call at a time; the store round trips of       *)
(* different sessions interleave.                                          *)
(***************************************************************************)
EXTENDS Integers, Sequences, FiniteSets, TLC

VARIABLES
    bugs,        \* the "bugs" collection: ObjectId -> document
    audit_logs,  \* the "audit_logs" collection, in insertion order
    clock,       \* datetime.datetime.utcnow(), in BSON's millisecond units
    pc,          \* per session: the position inside the running call
    call,        \* per session: the running call and its arguments
    frame,       \* per session: the local variables of the running call
    last,        \* the call that completed last, and what it returned or raised
    reported,    \* history: how many calls returned success, per action and id
    ncalls,      \* history: number of calls started
    page         \* the View & Manage page as last rendered

vars == <<bugs, audit_logs, clock, pc, call, frame, last, reported, ncalls, page>>

----------------------------------------------------------------------------
(* Bounds of the model *)

MaxCalls == 2
MaxClock == 2
MaxBugs == 2
OidLen == 2

Sessions == {"s1", "s2"}

----------------------------------------------------------------------------
(* Python str *)

UpperChars == <<"A","B","C","D","E","F","G","H","I","J","K","L","M",
                "N","O","P","Q","R","S","T","U","V","W","X","Y","Z">>
LowerChars == <<"a","b","c","d","e","f","g","h","i","j","k","l","m",
                "n","o","p","q","r","s","t","u","v","w","x","y","z">>

UpperToLower ==
    [ch \in {UpperChars[i] : i \in DOMAIN UpperChars} |->
        LowerChars[CHOOSE i \in DOMAIN UpperChars : UpperChars[i] = ch]]

LowerChar(ch) == IF ch \in DOMAIN UpperToLower THEN UpperToLower[ch] ELSE ch

\* str.lower()
lower(s) == [i \in 1..Len(s) |-> LowerChar(s[i])]

\* str.strip()
RECURSIVE strip(_)
strip(s) ==
    IF s = <<>> THEN s
    ELSE IF Head(s) = " " THEN strip(Tail(s))
    ELSE IF s[Len(s)] = " " THEN strip(SubSeq(s, 1, Len(s) - 1))
    ELSE s

\* q in s
Contains(q, s) ==
    \E i \in 0..(Len(s) - Len(q)) : SubSeq(s, i + 1, i + Len(q)) = q

\* None where a str is expected; no str equals it
None == <<"None">>

\* None where a document is expected; no document equals it
NoneDoc == [none |-> TRUE]

\* truthiness of an Optional[str]
Truthy(s) == s # None /\ s # <<>>

----------------------------------------------------------------------------
(* String literals of the source *)

S_open == <<"o","p","e","n">>
S_in_progress == <<"i","n","-","p","r","o","g","r","e","s","s">>
S_resolved == <<"r","e","s","o","l","v","e","d">>
S_closed == <<"c","l","o","s","e","d">>
S_low == <<"l","o","w">>
S_medium == <<"m","e","d","i","u","m">>
S_high == <<"h","i","g","h">>
S_critical == <<"c","r","i","t","i","c","a","l">>
S_All == <<"A","l","l">>
S_NA == <<"N","/","A">>
S_Unassigned == <<"U","n","a","s","s","i","g","n","e","d">>
S_admin == <<"a","d","m","i","n">>
S_Title == <<"T","i","t","l","e",":"," ">>
S_Type == <<"T","y","p","e",":"," ">>
S_NewStatus == <<"N","e","w"," ","S","t","a","t","u","s",":"," ">>

Statuses == {S_open, S_in_progress, S_resolved, S_closed}
Severities == {S_low, S_medium, S_high, S_critical}

----------------------------------------------------------------------------
(* bson.objectid.ObjectId: a key, its hexadecimal string form and its parser *)

HexDigits == <<"0","1","2","3","4","5","6","7","8","9","a","b","c","d","e","f">>

HexVal(ch) == (CHOOSE i \in DOMAIN HexDigits : HexDigits[i] = LowerChar(ch)) - 1

RECURSIVE Pow(_, _)
Pow(b, n) == IF n = 0 THEN 1 ELSE b * Pow(b, n - 1)

\* str(ObjectId)
OidStr(oid) ==
    [i \in 1..OidLen |->
        HexDigits[((oid \div Pow(Len(HexDigits), OidLen - i)) % Len(HexDigits)) + 1]]

\* ObjectId.is_valid(s)
IsValidOid(s) ==
    /\ s # None
    /\ Len(s) = OidLen
    /\ \A i \in 1..Len(s) : \E j \in DOMAIN HexDigits : HexDigits[j] = LowerChar(s[i])

RECURSIVE OidValue(_)
OidValue(s) ==
    IF s = <<>> THEN 0
    ELSE OidValue(SubSeq(s, 1, Len(s) - 1)) * Len(HexDigits) + HexVal(s[Len(s)])

\* ObjectId(s): the key, or the InvalidId fault
InvalidId == -1
ObjectId(s) == IF IsValidOid(s) THEN OidValue(s) ELSE InvalidId

----------------------------------------------------------------------------
(* pymongo collection operations *)

\* a generator that hands out the same key again
NewObjectIdReused(coll) == 1

\* the _id insert_one gives a document: a key no document of the collection has
NewObjectId(coll) == Cardinality(DOMAIN coll) + 1

insert_one(coll, doc) == (NewObjectId(coll) :> doc) @@ coll

find_one(coll, oid) == IF oid \in DOMAIN coll THEN coll[oid] ELSE NoneDoc

\* a read-modify-write that keeps only the writer's own element
PushOverwrites(array, elem) == <<elem>>

\* $push of one element to an array field
Push(array, elem) == Append(array, elem)

\* update_one({"_id": oid}, {"$push": {"logs": e}, "$set": {"updated_at": t}})
UpdatePushSet(coll, oid, e, t) ==
    IF oid \in DOMAIN coll
    THEN [coll EXCEPT ![oid] = [@ EXCEPT !.logs = Push(@, e), !.updated_at = t]]
    ELSE coll

\* an update that replaces the document's nested logs along with the status
UpdateSetResetsLogs(coll, oid, s, t) ==
    IF oid \in DOMAIN coll
    THEN [coll EXCEPT ![oid] = [@ EXCEPT !.status = s, !.updated_at = t, !.logs = <<>>]]
    ELSE coll

\* update_one({"_id": oid}, {"$set": {"status": s, "updated_at": t}})
UpdateSet(coll, oid, s, t) ==
    IF oid \in DOMAIN coll
    THEN [coll EXCEPT ![oid] = [@ EXCEPT !.status = s, !.updated_at = t]]
    ELSE coll

\* UpdateResult: a matched document the update leaves as it was is not modified
UpdateResult(coll, after, oid) ==
    [matched_count |-> IF oid \in DOMAIN coll THEN 1 ELSE 0,
     modified_count |-> IF oid \in DOMAIN coll /\ after[oid] # coll[oid] THEN 1 ELSE 0]

----------------------------------------------------------------------------
(* log_audit_event *)

AuditEvent(now, action, bug_id, details) ==
    [timestamp |-> now, user |-> S_admin, action |-> action,
     bug_id |-> bug_id, details |-> details]

\* an audit write that is lost
log_audit_event_lost(coll, now, action, bug_id, details) == coll

log_audit_event(coll, now, action, bug_id, details) ==
    Append(coll, AuditEvent(now, action, bug_id, details))

----------------------------------------------------------------------------
(* Results of a call *)

NoRet == [kind |-> "none"]
Return(v) == [kind |-> "return", val |-> v]
Raise(e) == [kind |-> "raise", exc |-> e]

NoPage == [rendered |-> FALSE]
NoCall == [op |-> "none"]
NoFrame == [none |-> TRUE]

\* a session starts a call; the script run that rendered the page is over
Begin(s, op, args) ==
    /\ pc[s] = "idle"
    /\ ncalls < MaxCalls
    /\ ncalls' = ncalls + 1
    /\ call' = [call EXCEPT ![s] = [op |-> op, args |-> args]]
    /\ page' = NoPage

\* the call of session s ends with result r
Finish(s, c, r) ==
    /\ pc' = [pc EXCEPT ![s] = "idle"]
    /\ call' = [call EXCEPT ![s] = NoCall]
    /\ frame' = [frame EXCEPT ![s] = NoFrame]
    /\ last' = [op |-> c.op, args |-> c.args, ret |-> r]

Bump(action, bug_id) ==
    [reported EXCEPT ![<<action, bug_id>>] = @ + 1]

\* the identifiers a caller can supply: the ids the store has handed out, a
\* well-formed id the store never hands out, and a string that is no ObjectId
AbsentId == OidStr(0)
BadId == <<"x">>
KnownIds == {OidStr(o) : o \in DOMAIN bugs} \cup {AbsentId, BadId}
AllIds == {OidStr(o) : o \in 0..(MaxBugs + 1)} \cup {BadId}

----------------------------------------------------------------------------
(* create_bug *)

BugDoc(a, now) ==
    [title |-> a.title,
     description |-> a.description,
     severity |-> lower(a.severity),
     priority |-> lower(a.priority),
     status |-> S_open,
     module |-> a.module,
     assignee |-> a.assignee,
     git_commit |-> IF Truthy(a.git_commit) THEN a.git_commit ELSE S_NA,
     created_at |-> now,
     updated_at |-> now,
     logs |-> <<>>]

Inserting == {s \in Sessions : pc[s] = "create_insert"}

\* lines 52-67: read the clock, build the document
create_bug_call(s, a) ==
    /\ Begin(s, "create_bug", a)
    /\ Cardinality(DOMAIN bugs) + Cardinality(Inserting) < MaxBugs
    /\ frame' = [frame EXCEPT ![s] = [bug_doc |-> BugDoc(a, clock)]]
    /\ pc' = [pc EXCEPT ![s] = "create_insert"]
    /\ UNCHANGED <<bugs, audit_logs, clock, last, reported>>

\* lines 69-70: the store inserts the document and assigns its id
create_bug_insert(s) ==
    /\ pc[s] = "create_insert"
    /\ bugs' = insert_one(bugs, frame[s].bug_doc)
    /\ frame' = [frame EXCEPT ![s] = [bug_id |-> OidStr(NewObjectId(bugs))]]
    /\ pc' = [pc EXCEPT ![s] = "create_audit"]
    /\ UNCHANGED <<audit_logs, clock, call, last, reported, ncalls, page>>

\* lines 71-72: the audit event, then the id is returned
create_bug_audit(s) ==
    /\ pc[s] = "create_audit"
    /\ audit_logs' = log_audit_event(audit_logs, clock, "CREATE_BUG", frame[s].bug_id,
                                     S_Title \o call[s].args.title)
    /\ Finish(s, call[s], Return(frame[s].bug_id))
    /\ reported' = Bump("CREATE_BUG", frame[s].bug_id)
    /\ UNCHANGED <<bugs, clock, ncalls, page>>

----------------------------------------------------------------------------
(* add_test_log *)

\* lines 80-85: read the clock, build the log entry
add_test_log_call(s, bug_id, status, details) ==
    /\ Begin(s, "add_test_log", [bug_id |-> bug_id, status |-> status, details |-> details])
    /\ frame' = [frame EXCEPT ![s] =
                    [log_entry |-> [timestamp |-> clock, status |-> lower(status),
                                    details |-> details]]]
    /\ pc' = [pc EXCEPT ![s] = "log_filter"]
    /\ UNCHANGED <<bugs, audit_logs, clock, last, reported>>

\* lines 88-91: ObjectId(bug_id) raises on a malformed id; else read the clock again
add_test_log_filter(s) ==
    /\ pc[s] = "log_filter"
    /\ IF ObjectId(call[s].args.bug_id) = InvalidId
       THEN Finish(s, call[s], Raise("InvalidId"))
       ELSE /\ frame' = [frame EXCEPT ![s] =
                            [log_entry |-> frame[s].log_entry,
                             oid |-> ObjectId(call[s].args.bug_id),
                             updated_at |-> clock]]
            /\ pc' = [pc EXCEPT ![s] = "log_update"]
            /\ UNCHANGED <<call, last>>
    /\ UNCHANGED <<bugs, audit_logs, clock, reported, ncalls, page>>

\* lines 87-93: the store applies the update to the matching document, atomically
add_test_log_update(s) ==
    /\ pc[s] = "log_update"
    /\ bugs' = UpdatePushSet(bugs, frame[s].oid, frame[s].log_entry, frame[s].updated_at)
    /\ frame' = [frame EXCEPT ![s] = [result |-> UpdateResult(bugs, bugs', frame[s].oid)]]
    /\ pc' = [pc EXCEPT ![s] = "log_result"]
    /\ UNCHANGED <<audit_logs, clock, call, last, reported, ncalls, page>>

\* lines 95-98
add_test_log_result(s) ==
    /\ pc[s] = "log_result"
    /\ IF frame[s].result.modified_count = 1
       THEN /\ audit_logs' = log_audit_event(audit_logs, clock, "ADD_ACTIVITY",
                                             call[s].args.bug_id,
                                             S_Type \o call[s].args.status)
            /\ reported' = Bump("ADD_ACTIVITY", call[s].args.bug_id)
            /\ Finish(s, call[s], Return(TRUE))
       ELSE /\ Finish(s, call[s], Return(FALSE))
            /\ UNCHANGED <<audit_logs, reported>>
    /\ UNCHANGED <<bugs, clock, ncalls, page>>

----------------------------------------------------------------------------
(* update_bug_status *)

\* lines 102-109: ObjectId(bug_id) raises on a malformed id; else lower-case the
\* status and read the clock
update_bug_status_call(s, bug_id, new_status) ==
    /\ Begin(s, "update_bug_status", [bug_id |-> bug_id, new_status |-> new_status])
    /\ IF ObjectId(bug_id) = InvalidId
       THEN /\ pc' = [pc EXCEPT ![s] = "status_raise"]
            /\ UNCHANGED frame
       ELSE /\ frame' = [frame EXCEPT ![s] =
                            [oid |-> ObjectId(bug_id), status |-> lower(new_status),
                             updated_at |-> clock]]
            /\ pc' = [pc EXCEPT ![s] = "status_update"]
    /\ UNCHANGED <<bugs, audit_logs, clock, last, reported>>

\* line 104: the InvalidId fault leaves the function
update_bug_status_raise(s) ==
    /\ pc[s] = "status_raise"
    /\ Finish(s, call[s], Raise("InvalidId"))
    /\ UNCHANGED <<bugs, audit_logs, clock, reported, ncalls, page>>

\* lines 103-111: the store applies the update to the matching document, atomically
update_bug_status_update(s) ==
    /\ pc[s] = "status_update"
    /\ bugs' = UpdateSet(bugs, frame[s].oid, frame[s].status, frame[s].updated_at)
    /\ frame' = [frame EXCEPT ![s] = [result |-> UpdateResult(bugs, bugs', frame[s].oid)]]
    /\ pc' = [pc EXCEPT ![s] = "status_result"]
    /\ UNCHANGED <<audit_logs, clock, call, last, reported, ncalls, page>>

\* lines 112-115
update_bug_status_result(s) ==
    /\ pc[s] = "status_result"
    /\ IF frame[s].result.modified_count = 1
       THEN /\ audit_logs' = log_audit_event(audit_logs, clock, "UPDATE_STATUS",
                                             call[s].args.bug_id,
                                             S_NewStatus \o call[s].args.new_status)
            /\ reported' = Bump("UPDATE_STATUS", call[s].args.bug_id)
            /\ Finish(s, call[s], Return(TRUE))
       ELSE /\ Finish(s, call[s], Return(FALSE))
            /\ UNCHANGED <<audit_logs, reported>>
    /\ UNCHANGED <<bugs, clock, ncalls, page>>

----------------------------------------------------------------------------
(* get_bug_by_id *)

GetById(coll, bug_id) ==
    IF ObjectId(bug_id) = InvalidId
    THEN Raise("InvalidId")
    ELSE Return(find_one(coll, ObjectId(bug_id)))

\* lines 138-139
get_bug_by_id(s, bug_id) ==
    /\ pc[s] = "idle"
    /\ ncalls < MaxCalls
    /\ ncalls' = ncalls + 1
    /\ last' = [op |-> "get_bug_by_id", args |-> [bug_id |-> bug_id],
                ret |-> GetById(bugs, bug_id)]
    /\ page' = NoPage
    /\ UNCHANGED <<bugs, audit_logs, clock, pc, call, frame, reported>>

----------------------------------------------------------------------------
(* list_bugs *)

\* a query that ignores the letter case of nothing: the status is matched as given
QueryAsGiven(status, module, severity) ==
    [status |-> IF Truthy(status) /\ status # S_All THEN status ELSE None,
     module |-> IF Truthy(module) THEN module ELSE None,
     severity |-> IF Truthy(severity) /\ severity # S_All THEN lower(severity) ELSE None]

\* lines 124-131: the query document; None stands for a key the query lacks
Query(status, module, severity) ==
    [status |-> IF Truthy(status) /\ status # S_All THEN lower(status) ELSE None,
     module |-> IF Truthy(module) THEN module ELSE None,
     severity |-> IF Truthy(severity) /\ severity # S_All THEN lower(severity) ELSE None]

\* a document matches a query when it equals the query on every key of the query
Matches(doc, query) ==
    /\ query.status # None => doc.status = query.status
    /\ query.module # None => doc.module = query.module
    /\ query.severity # None => doc.severity = query.severity

\* a document as find() returns it, with its _id
Found(coll, oid) ==
    [_id |-> oid,
     title |-> coll[oid].title,
     description |-> coll[oid].description,
     severity |-> coll[oid].severity,
     priority |-> coll[oid].priority,
     status |-> coll[oid].status,
     module |-> coll[oid].module,
     assignee |-> coll[oid].assignee,
     git_commit |-> coll[oid].git_commit,
     created_at |-> coll[oid].created_at,
     updated_at |-> coll[oid].updated_at,
     logs |-> coll[oid].logs]

\* find(query).sort("created_at", -1): the matching documents, newest first;
\* the store does not fix the order of documents created at the same time
FindSorted(coll, query) ==
    LET ids == {o \in DOMAIN coll : Matches(coll[o], query)}
        n == Cardinality(ids)
    IN  {[i \in 1..n |-> Found(coll, f[i])] :
            f \in {g \in [1..n -> ids] :
                      /\ \A i, j \in 1..n : i # j => g[i] # g[j]
                      /\ \A i, j \in 1..n :
                            i < j => coll[g[i]].created_at >= coll[g[j]].created_at}}

\* lines 118-134: the lists list_bugs can return
list_bugs(coll, status, module, severity) ==
    FindSorted(coll, Query(status, module, severity))

\* a call of list_bugs by session s: one read of the store
ListBugs(s, status, module, severity) ==
    /\ pc[s] = "idle"
    /\ \E list \in list_bugs(bugs, status, module, severity) :
          last' = [op |-> "list_bugs",
                   args |-> [status |-> status, module |-> module, severity |-> severity],
                   ret |-> Return(list)]
    /\ UNCHANGED <<bugs, audit_logs, clock, pc, call, frame, reported, ncalls, page>>

----------------------------------------------------------------------------
(* export_bugs_to_csv: the fetched documents as a table of text fields *)

\* the keys of a document in the order the store returns them: _id first, then
\* the keys of bug_doc (lines 55-67) in the order they were written
DocKeys ==
    <<"_id", "title", "description", "severity", "priority", "status", "module",
      "assignee", "git_commit", "created_at", "updated_at", "logs">>

\* str() of a natural number, the decimal digits most significant first
RECURSIVE Dec(_)
Dec(n) ==
    IF n < 10 THEN <<HexDigits[n + 1]>> ELSE Dec(n \div 10) \o <<HexDigits[(n % 10) + 1]>>

\* repr() of a str: the text between single quotes
ReprStr(str) == <<"'">> \o str \o <<"'">>

\* repr() of a datetime; the clock value stands for its fields
ReprDatetime(t) == <<"d","a","t","e","t","i","m","e",".","d","a","t","e","t","i","m","e","(">> \o Dec(t) \o <<")">>

\* repr() of a log entry, a dict with the keys of lines 81-85
ReprLogEntry(entry) ==
    <<"{","'","t","i","m","e","s","t","a","m","p","'",":"," ">> \o ReprDatetime(entry.timestamp)
        \o <<","," ","'","s","t","a","t","u","s","'",":"," ">> \o ReprStr(entry.status)
        \o <<","," ","'","d","e","t","a","i","l","s","'",":"," ">> \o ReprStr(entry.details) \o <<"}">>

\* str() of the logs list: the reprs of its entries between brackets
RECURSIVE ReprEntries(_)
ReprEntries(logs) ==
    IF logs = <<>> THEN <<>>
    ELSE IF Len(logs) = 1 THEN ReprLogEntry(Head(logs))
    ELSE ReprLogEntry(Head(logs)) \o <<",", " ">> \o ReprEntries(Tail(logs))

StrList(logs) == <<"[">> \o ReprEntries(logs) \o <<"]">>

\* to_csv quotes a field that holds the separator, a quote or a line break,
\* doubling the quotes inside it
CsvSpecial == {",", "\"", "\n", "\r"}

RECURSIVE DoubleQuotes(_)
DoubleQuotes(str) ==
    IF str = <<>> THEN <<>>
    ELSE IF Len(str) = 1 THEN (IF str[1] = "\"" THEN <<"\"", "\"">> ELSE str)
    ELSE LET mid == Len(str) \div 2
         IN  DoubleQuotes(SubSeq(str, 1, mid)) \o DoubleQuotes(SubSeq(str, mid + 1, Len(str)))

CsvField(str) ==
    IF \E i \in 1..Len(str) : str[i] \in CsvSpecial
    THEN <<"\"">> \o DoubleQuotes(str) \o <<"\"">>
    ELSE str

\* lines 146-148: item = b.copy(); item['_id'] = str(item['_id']); b is left as it was
CleanBug(b) == [b EXCEPT !._id = OidStr(b._id)]

\* the text to_csv writes for the value under a key of a clean document
CsvValue(item, key) ==
    IF key \in {"created_at", "updated_at"} THEN Dec(item[key])
    ELSE IF key = "logs" THEN StrList(item[key])
    ELSE item[key]

\* line 150: pd.DataFrame(clean_bugs) has one column per key of the documents
DataFrameColumns(clean_bugs) == DocKeys

\* line 151: to_csv(index=False) writes the header, then one line per document
to_csv(clean_bugs) ==
    LET columns == DataFrameColumns(clean_bugs)
    IN  [header |-> columns,
         lines |-> [i \in 1..Len(clean_bugs) |->
                        [j \in 1..Len(columns) |->
                            CsvField(CsvValue(clean_bugs[i], columns[j]))]]]

\* lines 141-151
export_bugs_to_csv(list) ==
    IF list = <<>> THEN NoneDoc
    ELSE to_csv([i \in 1..Len(list) |-> CleanBug(list[i])])

\* a session fetches a list and exports it, as the pages of the dashboard do
ExportBugs(s, status, module, severity) ==
    /\ pc[s] = "idle"
    /\ \E list \in list_bugs(bugs, status, module, severity) :
          last' = [op |-> "export_bugs_to_csv",
                   args |-> [bugs |-> list],
                   ret |-> Return(export_bugs_to_csv(list))]
    /\ UNCHANGED <<bugs, audit_logs, clock, pc, call, frame, reported, ncalls, page>>

----------------------------------------------------------------------------
(* View & Manage: the filters applied to the fetched list *)

\* an assignee filter that compares the letters as typed
AssigneeFilterAsTyped(list, assignee_filter) ==
    IF Truthy(assignee_filter)
    THEN LET Keep(b) == Contains(assignee_filter, b.assignee)
         IN  SelectSeq(list, Keep)
    ELSE list

\* lines 413-414
PriorityFilter(list, priority_filter) ==
    IF priority_filter # S_All
    THEN LET Keep(b) == b.priority = priority_filter
         IN  SelectSeq(list, Keep)
    ELSE list

\* lines 415-416
AssigneeFilter(list, assignee_filter) ==
    IF Truthy(assignee_filter)
    THEN LET Keep(b) == Contains(lower(assignee_filter), lower(b.assignee))
         IN  SelectSeq(list, Keep)
    ELSE list

\* lines 417-419
SearchFilter(list, search_query) ==
    IF Truthy(search_query)
    THEN LET q == lower(search_query)
             Keep(b) == \/ Contains(q, lower(b.title))
                        \/ Contains(q, lower(b.description))
                        \/ Contains(q, lower(b.module))
         IN  SelectSeq(list, Keep)
    ELSE list

\* lines 386-421: a script run of session s renders the page with the given
\* widget values
view_manage(s, status_filter, severity_filter, priority_filter, assignee_filter, search_query) ==
    /\ pc[s] = "idle"
    /\ ~page.rendered
    /\ \E fetched \in list_bugs(bugs, status_filter, None, severity_filter) :
          page' = [rendered |-> TRUE,
                   status_filter |-> status_filter,
                   severity_filter |-> severity_filter,
                   priority_filter |-> priority_filter,
                   assignee_filter |-> assignee_filter,
                   search_query |-> search_query,
                   fetched |-> fetched,
                   bugs |-> SearchFilter(
                                AssigneeFilter(
                                    PriorityFilter(fetched, priority_filter),
                                    assignee_filter),
                                search_query)]
    /\ UNCHANGED <<bugs, audit_logs, clock, pc, call, frame, last, reported, ncalls>>

\* line 470: st.rerun() ends the script run; what it rendered is discarded
rerun ==
    /\ page.rendered
    /\ page' = NoPage
    /\ UNCHANGED <<bugs, audit_logs, clock, pc, call, frame, last, reported, ncalls>>

----------------------------------------------------------------------------
(* The clock *)

Tick ==
    /\ clock < MaxClock
    /\ clock' = clock + 1
    /\ UNCHANGED <<bugs, audit_logs, pc, call, frame, last, reported, ncalls, page>>

----------------------------------------------------------------------------
(* Inputs of the lifecycle specification *)

T_a == <<"a">>
T_d == <<"d">>
T_m == <<"m">>
T_x == <<"x">>
T_blank == <<" ">>
T_High == <<"H","i","g","h">>
T_urgent == <<"u","r","g","e","n","t">>
T_P2 == <<"P","2">>
T_Failed == <<"F","a","i","l","e","d">>
T_Closed == <<"C","l","o","s","e","d">>
T_bogus == <<"b","o","g","u","s">>

ValidBug ==
    [title |-> T_a, description |-> T_d, severity |-> T_High, priority |-> T_P2,
     module |-> T_m, assignee |-> S_Unassigned, git_commit |-> None]

CreateInputs ==
    {ValidBug, [ValidBug EXCEPT !.title = T_blank], [ValidBug EXCEPT !.severity = T_urgent]}

DetailInputs == {T_x, T_blank}

StatusInputs == Statuses \cup {T_Closed, T_bogus}

----------------------------------------------------------------------------
(* Specification of the record lifecycle under concurrent sessions *)

\* The collections persist between runs of the program: it starts on an empty
\* store, or on one that holds a bug filed by a create_bug call one clock unit ago.
Init ==
    /\ \E n \in {0, 1} :
          /\ bugs = IF n = 0 THEN <<>> ELSE insert_one(<<>>, BugDoc(ValidBug, 0))
          /\ audit_logs = IF n = 0 THEN <<>>
                          ELSE log_audit_event(<<>>, 0, "CREATE_BUG", OidStr(NewObjectId(<<>>)),
                                               S_Title \o ValidBug.title)
          /\ reported = [k \in {"CREATE_BUG", "ADD_ACTIVITY", "UPDATE_STATUS"} \X AllIds |->
                            IF n = 1 /\ k = <<"CREATE_BUG", OidStr(NewObjectId(<<>>))>>
                            THEN 1 ELSE 0]
          /\ clock = n
    /\ pc = [s \in Sessions |-> "idle"]
    /\ call = [s \in Sessions |-> NoCall]
    /\ frame = [s \in Sessions |-> NoFrame]
    /\ last = [op |-> "none", args |-> NoFrame, ret |-> NoRet]
    /\ ncalls = 0
    /\ page = NoPage

\* one step of a session, or of the clock, with the callers' inputs drawn from
\* the given sets
Step(creates, details, statuses) ==
    \/ Tick
    \/ \E s \in Sessions, a \in creates : create_bug_call(s, a)
    \/ \E s \in Sessions : create_bug_insert(s)
    \/ \E s \in Sessions : create_bug_audit(s)
    \/ \E s \in Sessions, id \in KnownIds, d \in details :
            add_test_log_call(s, id, T_Failed, d)
    \/ \E s \in Sessions : add_test_log_filter(s)
    \/ \E s \in Sessions : add_test_log_update(s)
    \/ \E s \in Sessions : add_test_log_result(s)
    \/ \E s \in Sessions, id \in KnownIds, st \in statuses :
            update_bug_status_call(s, id, st)
    \/ \E s \in Sessions : update_bug_status_raise(s)
    \/ \E s \in Sessions : update_bug_status_update(s)
    \/ \E s \in Sessions : update_bug_status_result(s)
    \/ \E s \in Sessions, id \in KnownIds : get_bug_by_id(s, id)

\* callers that pass any string
Next == Step(CreateInputs, DetailInputs, StatusInputs)

Spec == Init /\ [][Next]_vars

\* callers that pass what the forms of the presentation layer let through: filled
\* fields, a listed severity, a listed status; the id is still free text
NextValid == Step({ValidBug}, {T_x}, {S_open, S_closed})

SpecValid == Init /\ [][NextValid]_vars

----------------------------------------------------------------------------
(* Specification of the queries: one session files and updates bugs, and the *)
(* View & Manage page is rendered in between                                 *)

T_Ab == <<"A","b">>
T_Bo == <<"B","o">>
T_B == <<"B">>
T_un == <<"u","N">>
T_P0 == <<"P","0">>
T_p2 == <<"p","2">>
T_Open == <<"O","p","e","n">>
T_HIGH == <<"H","I","G","H">>

OtherBug ==
    [title |-> T_Ab, description |-> T_d, severity |-> S_low, priority |-> T_P0,
     module |-> S_All, assignee |-> T_Bo, git_commit |-> T_x]

PageStatusInputs == {S_All, S_open}
PageSeverityInputs == {S_All, S_high}
PagePriorityInputs == {S_All, T_p2}
PageAssigneeInputs == {<<>>, T_un}
PageSearchInputs == {<<>>, T_B}

\* one session files bugs and closes them
Filing ==
    \/ Tick
    \/ \E a \in {ValidBug, OtherBug} : create_bug_call("s1", a)
    \/ create_bug_insert("s1")
    \/ create_bug_audit("s1")
    \/ \E id \in {OidStr(o) : o \in DOMAIN bugs} : update_bug_status_call("s1", id, T_Closed)
    \/ update_bug_status_update("s1")
    \/ update_bug_status_result("s1")

NextQuery ==
    \/ Filing
    \/ \E st \in PageStatusInputs, se \in PageSeverityInputs, pr \in PagePriorityInputs,
          as \in PageAssigneeInputs, q \in PageSearchInputs :
            view_manage("s1", st, se, pr, as, q)
    \/ rerun

SpecQuery == Init /\ [][NextQuery]_vars

\* the filters list_bugs is called with: <<status, module, severity>>
FilterInputs ==
    {<<None, None, None>>, <<S_All, None, S_All>>, <<<<>>, <<>>, <<>>>>,
     <<T_Open, None, None>>, <<S_closed, None, None>>,
     <<None, T_m, None>>, <<None, S_All, None>>,
     <<None, None, T_HIGH>>, <<None, None, S_low>>,
     <<T_Open, T_m, T_HIGH>>, <<S_closed, S_All, S_low>>, <<T_Open, None, S_low>>}

NextList ==
    \/ Filing
    \/ \E f \in FilterInputs : ListBugs("s1", f[1], f[2], f[3])

SpecList == Init /\ [][NextList]_vars

\* the filters a list is fetched with before it is exported
ExportFilterInputs == {<<None, None, None>>, <<S_closed, None, None>>, <<None, None, S_low>>}

\* one session files bugs, logs activity on them and closes them, and exports
\* fetched lists in between
NextExport ==
    \/ Filing
    \/ \E id \in {OidStr(o) : o \in DOMAIN bugs} : add_test_log_call("s1", id, T_Failed, T_x)
    \/ add_test_log_filter("s1")
    \/ add_test_log_update("s1")
    \/ add_test_log_result("s1")
    \/ \E f \in ExportFilterInputs : ExportBugs("s1", f[1], f[2], f[3])

SpecExport == Init /\ [][NextExport]_vars

\* the lifecycle calls of the forms, with whole-collection reads in between
NextFrame ==
    \/ Step({ValidBug}, {T_x}, {S_closed})
    \/ \E s \in Sessions : ListBugs(s, None, None, None)

SpecFrame == Init /\ [][NextFrame]_vars

----------------------------------------------------------------------------
(* Properties *)

Actions == {"CREATE_BUG", "ADD_ACTIVITY", "UPDATE_STATUS"}

EventCount(action, bug_id) ==
    Cardinality({i \in DOMAIN audit_logs :
                    audit_logs[i].action = action /\ audit_logs[i].bug_id = bug_id})

\* the id string resolves to a stored record
Resolves(bug_id) == ObjectId(bug_id) \in DOMAIN bugs

\* C1: the audit collection holds exactly one event, with the call's action and
\* bug id, for every completed call that reported success, and none for a call
\* that reported failure: per action and id, events and successes are as many.
C1_OneEventPerSuccess ==
    /\ \A i \in DOMAIN audit_logs :
          <<audit_logs[i].action, audit_logs[i].bug_id>> \in DOMAIN reported
    /\ \A k \in DOMAIN reported : EventCount(k[1], k[2]) = reported[k]

\* a status update that reported failure after successes were audited
C1_Witness ==
    /\ last.op = "update_bug_status"
    /\ last.ret = Return(FALSE)
    /\ \E i \in DOMAIN audit_logs : audit_logs[i].action = "ADD_ACTIVITY"

\* C2: the status of every stored record is one of open, in-progress, resolved,
\* closed, whatever status strings the callers supply.
C2_StatusAlwaysDefined ==
    \A o \in DOMAIN bugs : bugs[o].status \in Statuses

\* the NotFound value of an operation
NotFound(op) == IF op = "get_bug_by_id" THEN Return(NoneDoc) ELSE Return(FALSE)

\* C3: AppendLog, TransitionStatus and GetById given an id that cannot be parsed
\* or that matches no record return NotFound as a value and raise nothing.
C3_BadIdIsNotFound ==
    (/\ last.op \in {"add_test_log", "update_bug_status", "get_bug_by_id"}
     /\ ~Resolves(last.args.bug_id))
    => last.ret = NotFound(last.op)

\* C4: TransitionStatus(id, s) on an existing id with s one of the four statuses
\* reports success, and the store then holds status = s for that id.
C4_ReportsSuccess ==
    (/\ last.op = "update_bug_status"
     /\ Resolves(last.args.bug_id)
     /\ last.args.new_status \in Statuses)
    => last.ret = Return(TRUE)

C4_StatusIsSet ==
    \A s \in Sessions :
        (/\ pc[s] = "status_update"
         /\ pc'[s] = "status_result"
         /\ Resolves(call[s].args.bug_id)
         /\ call[s].args.new_status \in Statuses)
        => GetById(bugs', call[s].args.bug_id).val.status = call[s].args.new_status

C4_TransitionStatusSucceeds == []C4_ReportsSuccess /\ [][C4_StatusIsSet]_vars

\* the sessions whose append to record o is committed and not yet returned
Appending(o) ==
    {s \in Sessions : /\ pc[s] = "log_result"
                      /\ ObjectId(call[s].args.bug_id) = o
                      /\ frame[s].result.modified_count = 1}

C5_EveryAppendSucceeds ==
    (last.op = "add_test_log" /\ Resolves(last.args.bug_id)) => last.ret = Return(TRUE)

C5_LengthIsSuccesses ==
    \A o \in DOMAIN bugs :
        Len(bugs[o].logs) =
            reported[<<"ADD_ACTIVITY", OidStr(o)>>] + Cardinality(Appending(o))

C5_CommitOrder ==
    \A o \in DOMAIN bugs :
        \/ bugs'[o].logs = bugs[o].logs
        \/ \E s \in Sessions :
              /\ pc[s] = "log_update"
              /\ pc'[s] = "log_result"
              /\ frame[s].oid = o
              /\ bugs'[o].logs = Append(bugs[o].logs, frame[s].log_entry)

\* C5: under every interleaving of AppendLog calls against an existing id, every
\* call succeeds, the logs are as long as there are successful (committed) calls,
\* each commit adds its entry at the end, and no entry is lost or changed.
C5_ConcurrentAppends ==
    /\ [](C5_EveryAppendSucceeds /\ C5_LengthIsSuccesses)
    /\ [][C5_CommitOrder]_vars

\* two sessions have both committed an append to one record
C5_Witness ==
    \E o \in DOMAIN bugs :
        /\ Cardinality(Appending(o)) = 2
        /\ Len(bugs[o].logs) = 2

C6_UpdatedNotBeforeCreated ==
    \A o \in DOMAIN bugs : bugs[o].updated_at >= bugs[o].created_at

C6_UpdatedNeverDecreases ==
    \A o \in DOMAIN bugs : bugs'[o].updated_at >= bugs[o].updated_at

\* C6: updated_at >= created_at in every record, and updated_at of a record
\* never decreases from one committed mutation to the next, also when the calls
\* of several sessions interleave.
C6_UpdatedAtMonotonic ==
    []C6_UpdatedNotBeforeCreated /\ [][C6_UpdatedNeverDecreases]_vars

\* no mutation of record o has been committed
Untouched(o) ==
    /\ reported[<<"ADD_ACTIVITY", OidStr(o)>>] = 0
    /\ reported[<<"UPDATE_STATUS", OidStr(o)>>] = 0
    /\ \A s \in Sessions :
          (pc[s] \in {"log_result", "status_result"} /\ ObjectId(call[s].args.bug_id) = o)
          => frame[s].result.modified_count = 0

Pristine(r) ==
    /\ r.kind = "return"
    /\ r.val # NoneDoc
    /\ r.val.status = S_open
    /\ r.val.logs = <<>>
    /\ r.val.created_at = r.val.updated_at

\* C7: CreateBug returns an id no earlier CreateBug call returned, and GetById on
\* it, before any other mutation of the record, returns status = open, logs = []
\* and created_at = updated_at.
C7_FreshIdPristineRecord ==
    /\ \A id \in AllIds : reported[<<"CREATE_BUG", id>>] <= 1
    /\ (last.op = "create_bug") => (last.ret.kind = "return" /\ Resolves(last.ret.val))
    /\ \A o \in DOMAIN bugs : Untouched(o) => Pristine(GetById(bugs, OidStr(o)))

\* a second bug was filed and is as created
C7_Witness ==
    /\ last.op = "create_bug"
    /\ last.ret.kind = "return"
    /\ ObjectId(last.ret.val) = 2
    /\ Untouched(2)

ValidCreate(a) ==
    /\ strip(a.title) # <<>>
    /\ strip(a.description) # <<>>
    /\ strip(a.module) # <<>>
    /\ lower(a.severity) \in Severities

\* C8: CreateBug with a blank title, description or module or an unlisted
\* severity, and AppendLog with blank details, fail with InvalidArgument; no
\* record is inserted or changed and no audit event is written.
C8_InvalidArgumentRejected ==
    /\ (last.op = "create_bug" /\ ~ValidCreate(last.args))
           => last.ret = Raise("InvalidArgument")
    /\ (last.op = "add_test_log" /\ strip(last.args.details) = <<>>)
           => last.ret = Raise("InvalidArgument")
    /\ \A o \in DOMAIN bugs :
          /\ ValidCreate(bugs[o])
          /\ \A i \in DOMAIN bugs[o].logs : strip(bugs[o].logs[i].details) # <<>>

\* the filter value is supplied
Supplied(f) == f # None /\ f # <<>>

\* the list is the expected records, each once and as stored, newest first
ListedRight(list, expected) ==
    /\ Len(list) = Cardinality(expected)
    /\ {list[i]._id : i \in DOMAIN list} = expected
    /\ \A i \in DOMAIN list : list[i] = Found(bugs, list[i]._id)
    /\ \A i, j \in DOMAIN list : i < j => list[i].created_at >= list[j].created_at

\* the records a filter selects when "All" is no constraint in any field
ExpectedOriginal(st, mo, se) ==
    {o \in DOMAIN bugs :
        /\ (Supplied(st) /\ st # S_All) => lower(bugs[o].status) = lower(st)
        /\ (Supplied(mo) /\ mo # S_All) => bugs[o].module = mo
        /\ (Supplied(se) /\ se # S_All) => lower(bugs[o].severity) = lower(se)}

\* the records a filter selects when "All" is no constraint in status and
\* severity, and a module name like any other in module
ExpectedAmended(st, mo, se) ==
    {o \in DOMAIN bugs :
        /\ (Supplied(st) /\ st # S_All) => lower(bugs[o].status) = lower(st)
        /\ Supplied(mo) => bugs[o].module = mo
        /\ (Supplied(se) /\ se # S_All) => lower(bugs[o].severity) = lower(se)}

\* this step is a call of list_bugs
ListStep == last'.op = "list_bugs" /\ (last.op # "list_bugs" \/ last' # last)

C9_OriginalStep ==
    ListStep => ListedRight(last'.ret.val,
                            ExpectedOriginal(last'.args.status, last'.args.module,
                                             last'.args.severity))

C9_AmendedStep ==
    ListStep => ListedRight(last'.ret.val,
                            ExpectedAmended(last'.args.status, last'.args.module,
                                            last'.args.severity))

\* C9 as claimed: ListBugs(filter) returns exactly the records that equal every
\* supplied filter field other than "All" (status and severity without regard to
\* letter case), newest first; an absent or "All" field is no constraint.
C9_ListBugsOriginal == [][C9_OriginalStep]_vars

\* C9 as amended: as claimed, but "All" is the match-all value of status and
\* severity only; a module filter "All" selects the records whose module is "All".
C9_ListBugsAmended == [][C9_AmendedStep]_vars

\* list_bugs was asked for the "Open" bugs and returned some, while the store
\* holds a bug that is not open
C9_Witness ==
    /\ last.op = "list_bugs"
    /\ last.args.status = T_Open
    /\ Len(last.ret.val) >= 1
    /\ \E o \in DOMAIN bugs : bugs[o].status # S_open

PriorityActive == page.priority_filter # S_All
AssigneeActive == page.assignee_filter # <<>>
SearchActive == page.search_query # <<>>

Satisfies(b) ==
    /\ PriorityActive => b.priority = page.priority_filter
    /\ AssigneeActive => Contains(lower(page.assignee_filter), lower(b.assignee))
    /\ SearchActive =>
          \E text \in {b.title, b.description, b.module} :
              Contains(lower(page.search_query), lower(text))

\* C10: the page shows exactly the fetched records that satisfy every active
\* in-memory predicate (priority, assignee, search), in the order of the fetched
\* list, and the fetched list itself when no predicate is active.
C10_FiltersComposeAsAnd ==
    page.rendered =>
        /\ page.bugs = SelectSeq(page.fetched, Satisfies)
        /\ (~PriorityActive /\ ~AssigneeActive /\ ~SearchActive) => page.bugs = page.fetched

\* two predicates are active and keep one of two fetched records
C10_Witness ==
    /\ page.rendered
    /\ PriorityActive /\ AssigneeActive
    /\ Len(page.fetched) = 2
    /\ Len(page.bugs) = 1


\* the export the last step made: the list it was given and what it returned
Exported == last.op = "export_bugs_to_csv"

\* the top-level scalar fields of a record, the nested logs left out
ScalarColumns == SelectSeq(DocKeys, LAMBDA k : k # "logs")

\* an empty list gives an absent payload
C11_EmptyIsAbsent ==
    Exported /\ last.args.bugs = <<>> => last.ret = Return(NoneDoc)

\* N >= 1 records give a header and N lines, line i being record i
C11_HeaderAndOneRowPerRecord ==
    Exported /\ last.args.bugs # <<>> =>
        /\ last.ret.kind = "return"
        /\ Len(last.ret.val.lines) = Len(last.args.bugs)
        /\ \A i \in 1..Len(last.args.bugs) :
              /\ Len(last.ret.val.lines[i]) = Len(last.ret.val.header)
              /\ last.ret.val.lines[i][1] = OidStr(last.args.bugs[i]._id)

\* the columns are the top-level scalar fields, without the logs
C11_LogsDropped ==
    Exported /\ last.args.bugs # <<>> => last.ret.val.header = ScalarColumns

\* C11: export_bugs_to_csv on an empty list returns an absent payload; on N >= 1
\* records it returns a header row and N rows in input order whose columns are
\* the top-level scalar fields only, the nested logs dropped.
C11_ToTabular ==
    /\ C11_EmptyIsAbsent
    /\ C11_HeaderAndOneRowPerRecord
    /\ C11_LogsDropped


\* the fields no mutation targets; the id is the key of the record
FixedFields ==
    {"title", "description", "module", "severity", "priority", "assignee",
     "git_commit", "created_at"}

\* the step commits the append of session s on record o
AppendCommit(s, o) ==
    pc[s] = "log_update" /\ pc'[s] = "log_result" /\ frame[s].oid = o

\* the step commits the status update of session s on record o
StatusCommit(s, o) ==
    pc[s] = "status_update" /\ pc'[s] = "status_result" /\ frame[s].oid = o

\* the step is a read of the store: get_bug_by_id or list_bugs
ReadStep ==
    /\ pc' = pc
    /\ clock' = clock
    /\ last'.op \in {"get_bug_by_id", "list_bugs"}
    /\ (last' # last \/ ncalls' # ncalls)

C12_Step ==
    /\ DOMAIN bugs \subseteq DOMAIN bugs'
    /\ DOMAIN bugs' # DOMAIN bugs => \E s \in Sessions : pc[s] = "create_insert"
    /\ \A o \in DOMAIN bugs :
          /\ \A f \in FixedFields : bugs'[o][f] = bugs[o][f]
          /\ bugs'[o].logs # bugs[o].logs =>
                /\ \E s \in Sessions : AppendCommit(s, o)
                /\ bugs'[o].status = bugs[o].status
          /\ bugs'[o].status # bugs[o].status =>
                /\ \E s \in Sessions : StatusCommit(s, o)
                /\ bugs'[o].logs = bugs[o].logs
          /\ bugs'[o].updated_at # bugs[o].updated_at =>
                \E s \in Sessions : AppendCommit(s, o) \/ StatusCommit(s, o)
    /\ \A s \in Sessions, o \in DOMAIN bugs :
          StatusCommit(s, o) => bugs'[o].logs = bugs[o].logs
    /\ ReadStep => bugs' = bugs /\ audit_logs' = audit_logs

\* C12: add_test_log changes only the logs and updated_at of its record,
\* update_bug_status only the status and updated_at of its record (the logs stay);
\* no step changes another field, another record, or removes a record, and
\* get_bug_by_id and list_bugs change nothing.
C12_MutationsChangeOnlyTheirTarget == [][C12_Step]_vars

\* a status update was committed on a record that has log entries
C12_Witness ==
    \E s \in Sessions :
        /\ pc[s] = "status_result"
        /\ frame[s].result.modified_count = 1
        /\ bugs[ObjectId(call[s].args.bug_id)].logs # <<>>
        /\ bugs[ObjectId(call[s].args.bug_id)].status = S_closed

============================================================================
